---- MODULE Spec2Model ----
(***************************************************************************)
(* Model of bot4.py: validated fields (Name, Phone, Birthday), Record,     *)
(* AddressBook with JSON persistence, and the interactive menu loop.       *)
(*                                                                         *)
(* Strings are sequences of one-character strings.  Python values that     *)
(* cross the json boundary are tagged records [t, v]: t is the Python      *)
(* type ("str", "none", "list", "dict"), v the payload.  A dict payload is *)
(* a sequence of <<key, value>> pairs in insertion order.                  *)
(***************************************************************************)
EXTENDS Integers, Sequences, FiniteSets, TLC

VARIABLES storage, book, now, pc, rec, op, args, err, ret, pre

vars == <<storage, book, now, pc, rec, op, args, err, ret, pre>>

----------------------------------------------------------------------------
(* Characters and str methods                                              *)

Lower == {"a", "b"}
Upper == {"A", "B"}
Alpha == Lower \cup Upper
Digits == {"0", "1", "2", "3", "4", "5", "6", "7", "8", "9"}

toUpper(c) == CASE c = "a" -> "A" [] c = "b" -> "B" [] OTHER -> c
toLower(c) == CASE c = "A" -> "a" [] c = "B" -> "b" [] OTHER -> c

\* isalpha without the "at least one character" condition
isalpha_AcceptsEmpty(s) == \A i \in 1..Len(s) : s[i] \in Alpha

\* str.isalpha(): at least one character and every character alphabetic
isalpha(s) == Len(s) > 0 /\ \A i \in 1..Len(s) : s[i] \in Alpha

\* str.isdigit(): at least one character and every character a digit
isdigit(s) == Len(s) > 0 /\ \A i \in 1..Len(s) : s[i] \in Digits

\* str.title(): a cased character is upper-cased when the character before
\* it is not cased, lower-cased when it is; other characters are kept
RECURSIVE titleFrom(_, _, _)
titleFrom(s, i, prevCased) ==
    IF i > Len(s) THEN <<>>
    ELSE IF s[i] \in Lower
         THEN <<(IF prevCased THEN s[i] ELSE toUpper(s[i]))>> \o titleFrom(s, i + 1, TRUE)
    ELSE IF s[i] \in Upper
         THEN <<(IF prevCased THEN toLower(s[i]) ELSE s[i])>> \o titleFrom(s, i + 1, TRUE)
    ELSE <<s[i]>> \o titleFrom(s, i + 1, FALSE)

title(s) == titleFrom(s, 1, FALSE)

\* decimal value of a string of digits
digitVal(c) == CASE c = "0" -> 0 [] c = "1" -> 1 [] c = "2" -> 2 [] c = "3" -> 3
                 [] c = "4" -> 4 [] c = "5" -> 5 [] c = "6" -> 6 [] c = "7" -> 7
                 [] c = "8" -> 8 [] c = "9" -> 9

RECURSIVE toInt(_)
toInt(s) == IF Len(s) = 0 THEN 0
            ELSE 10 * toInt(SubSeq(s, 1, Len(s) - 1)) + digitVal(s[Len(s)])

----------------------------------------------------------------------------
(* Python values                                                           *)

PyStr(s) == [t |-> "str", v |-> s]
PyNone == [t |-> "none", v |-> <<>>]
PyList(xs) == [t |-> "list", v |-> xs]
PyDict(kvs) == [t |-> "dict", v |-> kvs]

\* bool(x) for the value kinds above
truthy(x) == x.t # "none" /\ Len(x.v) > 0

\* iter(x): list elements, the characters of a str, the keys of a dict
iterate(x) ==
    CASE x.t = "list" -> x.v
      [] x.t = "str" -> [i \in 1..Len(x.v) |-> PyStr(<<x.v[i]>>)]
      [] x.t = "dict" -> [i \in 1..Len(x.v) |-> PyStr(x.v[i][1])]

dictHas(kvs, k) == \E i \in 1..Len(kvs) : kvs[i][1] = k
dictIndex(kvs, k) == CHOOSE i \in 1..Len(kvs) : kvs[i][1] = k
dictGet(kvs, k) == kvs[dictIndex(kvs, k)][2]
dictKeys(kvs) == {kvs[i][1] : i \in 1..Len(kvs)}

\* d[k] = v: an existing key keeps its position, a new key goes last
dictSet(kvs, k, val) ==
    IF dictHas(kvs, k)
    THEN [kvs EXCEPT ![dictIndex(kvs, k)] = <<k, val>>]
    ELSE Append(kvs, <<k, val>>)

\* del d[k], for a key that is present
dictDel(kvs, k) ==
    LET i == dictIndex(kvs, k)
    IN SubSeq(kvs, 1, i - 1) \o SubSeq(kvs, i + 1, Len(kvs))

----------------------------------------------------------------------------
(* Dates: datetime.strptime(value, "%d/%m/%Y") and timedelta arithmetic    *)

isLeap(y) == (y % 4 = 0 /\ y % 100 # 0) \/ y % 400 = 0

daysInMonth(y, m) ==
    CASE m \in {1, 3, 5, 7, 8, 10, 12} -> 31
      [] m \in {4, 6, 9, 11} -> 30
      [] m = 2 -> IF isLeap(y) THEN 29 ELSE 28

\* position of the first "/" in s at or after position i, 0 when none
RECURSIVE slashFrom(_, _)
slashFrom(s, i) ==
    IF i > Len(s) THEN 0
    ELSE IF s[i] = "/" THEN i ELSE slashFrom(s, i + 1)

\* %d: 3[0-1] | [1-2]\d | 0[1-9] | [1-9] | " "[1-9]
matchDay(p) ==
    \/ Len(p) = 2 /\ isdigit(p) /\ toInt(p) \in 1..31
    \/ Len(p) = 1 /\ isdigit(p) /\ toInt(p) \in 1..9
    \/ Len(p) = 2 /\ p[1] = " " /\ isdigit(<<p[2]>>) /\ toInt(<<p[2]>>) \in 1..9

\* %m: 1[0-2] | 0[1-9] | [1-9]
matchMonth(p) ==
    \/ Len(p) = 2 /\ isdigit(p) /\ toInt(p) \in 1..12
    \/ Len(p) = 1 /\ isdigit(p) /\ toInt(p) \in 1..9

\* %Y: \d\d\d\d
matchYear(p) == Len(p) = 4 /\ isdigit(p)

dayDigits(p) == IF p[1] = " " THEN <<p[2]>> ELSE p

\* strptime: [ok, date]; ok is FALSE where Python raises ValueError
strptime(s) ==
    LET bad == [ok |-> FALSE, date |-> <<0, 0, 0>>]
        i1 == slashFrom(s, 1)
        i2 == IF i1 = 0 THEN 0 ELSE slashFrom(s, i1 + 1)
    IN IF i1 = 0 \/ i2 = 0 THEN bad
       ELSE LET dp == SubSeq(s, 1, i1 - 1)
                mp == SubSeq(s, i1 + 1, i2 - 1)
                yp == SubSeq(s, i2 + 1, Len(s))
            IN IF ~(matchDay(dp) /\ matchMonth(mp) /\ matchYear(yp)) THEN bad
               ELSE LET d == toInt(dayDigits(dp))
                        m == toInt(mp)
                        y == toInt(yp)
                    IN IF y < 1 \/ d > daysInMonth(y, m) THEN bad
                       ELSE [ok |-> TRUE, date |-> <<y, m, d>>]

\* the calendar day after date
nextDay(date) ==
    LET y == date[1]
        m == date[2]
        d == date[3]
    IN IF d < daysInMonth(y, m) THEN <<y, m, d + 1>>
       ELSE IF m < 12 THEN <<y, m + 1, 1>>
       ELSE <<y + 1, 1, 1>>

RECURSIVE addDays(_, _)
addDays(date, n) == IF n = 0 THEN date ELSE addDays(nextDay(date), n - 1)

\* datetime <= datetime; a datetime is <<year, month, day, time of day>>
dtLeq(a, b) ==
    \/ a[1] < b[1]
    \/ a[1] = b[1] /\ a[2] < b[2]
    \/ a[1] = b[1] /\ a[2] = b[2] /\ a[3] < b[3]
    \/ a[1] = b[1] /\ a[2] = b[2] /\ a[3] = b[3] /\ a[4] <= b[4]

----------------------------------------------------------------------------
(* Field subclasses: validate() returns the exception it raises, or "none" *)

\* Name.validate: self.value.isalpha() must hold; a value that is not a
\* str has no isalpha attribute
Name_validate(value) ==
    IF value.t # "str" THEN "AttributeError"
    ELSE IF ~isalpha(value.v) THEN "ValueError"
    ELSE "none"

\* Phone.validate: len(self.value) != 10 or not self.value.isdigit()
Phone_validate(value) ==
    IF value.t = "none" THEN "TypeError"
    ELSE IF Len(value.v) # 10 THEN "ValueError"
    ELSE IF value.t # "str" THEN "AttributeError"
    ELSE IF ~isdigit(value.v) THEN "ValueError"
    ELSE "none"

\* Birthday.validate: strptime's ValueError is re-raised as ValueError; a
\* value that is not a str makes strptime raise TypeError
Birthday_validate(value) ==
    IF value.t # "str" THEN "TypeError"
    ELSE IF ~strptime(value.v).ok THEN "ValueError"
    ELSE "none"

----------------------------------------------------------------------------
(* Record.  A record is [name, phones, birthday]: the value of its Name,   *)
(* the values of its Phone objects in list order, and <<>> for a birthday  *)
(* of None or <<value>> for a Birthday object.  Every method returns       *)
(* [err, rec]: the exception raised ("none" if it returned) and the record *)
(* as the call leaves it.                                                  *)

NoRecord == [name |-> <<>>, phones |-> <<>>, birthday |-> <<>>]

\* add_phone without the validate() call
add_phone_Unchecked(r, phone) ==
    [err |-> "none", rec |-> [r EXCEPT !.phones = Append(@, phone.v)]]

add_phone(r, phone) ==
    LET e == Phone_validate(phone)
    IN IF e # "none" THEN [err |-> e, rec |-> r]
       ELSE [err |-> "none", rec |-> [r EXCEPT !.phones = Append(@, phone.v)]]

\* index of the first phone whose value equals phone, 0 for None
RECURSIVE findPhoneFrom(_, _, _)
findPhoneFrom(r, phone, i) ==
    IF i > Len(r.phones) THEN 0
    ELSE IF phone.t = "str" /\ r.phones[i] = phone.v THEN i
    ELSE findPhoneFrom(r, phone, i + 1)

find_phone(r, phone) == findPhoneFrom(r, phone, 1)

remove_phone(r, phone) ==
    LET ph == find_phone(r, phone)
    IN IF ph # 0
       THEN [r EXCEPT !.phones = SubSeq(@, 1, ph - 1) \o SubSeq(@, ph + 1, Len(@))]
       ELSE r

\* edit_phone that validates new_phone before it removes old_phone
edit_phone_Atomic(r, old_phone, new_phone) ==
    IF Phone_validate(new_phone) # "none"
    THEN [err |-> Phone_validate(new_phone), rec |-> r]
    ELSE add_phone(remove_phone(r, old_phone), new_phone)

edit_phone(r, old_phone, new_phone) ==
    add_phone(remove_phone(r, old_phone), new_phone)

add_birthday(r, birthday) ==
    LET e == Birthday_validate(birthday)
    IN IF e # "none" THEN [err |-> e, rec |-> r]
       ELSE [err |-> "none", rec |-> [r EXCEPT !.birthday = <<birthday.v>>]]

\* the loop "for phone in phones: self.add_phone(phone)", stopping at the
\* first exception
RECURSIVE addPhones(_, _, _)
addPhones(res, items, i) ==
    IF res.err # "none" \/ i > Len(items) THEN res
    ELSE addPhones(add_phone(res.rec, items[i]), items, i + 1)

Record_init(name, phones, birthday) ==
    LET e == Name_validate(name)
    IN IF e # "none" THEN [err |-> e, rec |-> NoRecord]
       ELSE LET r0 == [name |-> name.v, phones |-> <<>>, birthday |-> <<>>]
                r1 == IF truthy(phones)
                      THEN addPhones([err |-> "none", rec |-> r0], iterate(phones), 1)
                      ELSE [err |-> "none", rec |-> r0]
            IN IF r1.err # "none" THEN [err |-> r1.err, rec |-> NoRecord]
               ELSE IF truthy(birthday)
                    THEN LET r2 == add_birthday(r1.rec, birthday)
                         IN IF r2.err # "none" THEN [err |-> r2.err, rec |-> NoRecord]
                            ELSE r2
               ELSE r1

----------------------------------------------------------------------------
(* AddressBook.  The book (self.data) is a dict payload: <<key, record>>   *)
(* pairs in insertion order.  The storage file is [kind, doc]: kind is     *)
(* "absent" (no file), "garbage" (text that is not JSON) or "json", and    *)
(* doc is the value json.load returns for it.                              *)

NoFile == [kind |-> "absent", doc |-> PyNone]
Garbage == [kind |-> "garbage", doc |-> PyNone]
JsonFile(doc) == [kind |-> "json", doc |-> doc]

\* the loop of the dict comprehension in load, from entry i on, stopping at
\* the first exception: v["name"], v["phones"], v["birthday"] then Record(...)
RECURSIVE loadFrom(_, _, _)
loadFrom(items, i, acc) ==
    IF i > Len(items) THEN [err |-> "none", data |-> acc]
    ELSE LET k == items[i][1]
             v == items[i][2]
         IN IF v.t # "dict" THEN [err |-> "TypeError", data |-> <<>>]
            ELSE IF ~(dictHas(v.v, "name") /\ dictHas(v.v, "phones") /\ dictHas(v.v, "birthday"))
                 THEN [err |-> "KeyError", data |-> <<>>]
            ELSE LET res == Record_init(dictGet(v.v, "name"), dictGet(v.v, "phones"),
                                        dictGet(v.v, "birthday"))
                 IN IF res.err # "none" THEN [err |-> res.err, data |-> <<>>]
                    ELSE loadFrom(items, i + 1, dictSet(acc, k, res.rec))

\* AddressBook.load: FileNotFoundError and JSONDecodeError give {}; any
\* other exception propagates
load(file) ==
    IF file.kind # "json" THEN [err |-> "none", data |-> <<>>]
    ELSE IF file.doc.t # "dict" THEN [err |-> "AttributeError", data |-> <<>>]
    ELSE loadFrom(file.doc.v, 1, <<>>)

\* o.__dict__ of a Field
fieldDict(value) == PyDict(<< <<"value", PyStr(value)>> >>)

\* o.__dict__ of a Record, its Field objects serialised by the same hook
recordDict(r) ==
    PyDict(<< <<"name", fieldDict(r.name)>>,
              <<"phones", PyList([i \in 1..Len(r.phones) |-> fieldDict(r.phones[i])])>>,
              <<"birthday", IF r.birthday = <<>> THEN PyNone ELSE fieldDict(r.birthday[1])>> >>)

\* the file json.dump(self.data, f, default=lambda o: o.__dict__) writes
save(data) ==
    JsonFile(PyDict([i \in 1..Len(data) |-> <<data[i][1], recordDict(data[i][2])>>]))

\* self.data[record.name.value] = record
add_record(data, record) == dictSet(data, record.name, record)

\* self.data.get(name.title()): <<>> for None, <<record>> otherwise
find(data, name) ==
    IF dictHas(data, title(name)) THEN <<dictGet(data, title(name))>> ELSE <<>>

\* del self.data[name]
delete(data, name) ==
    IF dictHas(data, name) THEN [err |-> "none", data |-> dictDel(data, name)]
    ELSE [err |-> "KeyError", data |-> data]

\* the loop of get_birthdays_per_week from entry i on; today is the clock
\* reading <<year, month, day, time of day>>
RECURSIVE birthdaysFrom(_, _, _)
birthdaysFrom(data, today, i) ==
    IF i > Len(data) THEN <<>>
    ELSE LET record == data[i][2]
             next_week == addDays(<<today[1], today[2], today[3]>>, 7) \o <<today[4]>>
             rest == birthdaysFrom(data, today, i + 1)
         IN IF record.birthday = <<>> THEN rest
            ELSE LET birthday_date == strptime(record.birthday[1]).date \o <<0>>
                 IN IF dtLeq(today, birthday_date) /\ dtLeq(birthday_date, next_week)
                    THEN << <<record.name, record.birthday[1]>> >> \o rest
                    ELSE rest

get_birthdays_per_week(data, today) == birthdaysFrom(data, today, 1)

----------------------------------------------------------------------------
(* Inputs                                                                  *)

MaxNameLen == 3
MaxPhones == 3

StringsUpTo(chars, n) == UNION {[1..k -> chars] : k \in 0..n}
ListsUpTo(items, n) == UNION {[1..k -> items] : k \in 0..n}

NameChars == {"a", "A", "1", " ", "-"}
NameInputs == StringsUpTo(NameChars, MaxNameLen)
RecordNameInputs == {<<"a">>, <<"a", "1">>, <<>>}

Phone1 == <<"1", "2", "3", "4", "5", "6", "7", "8", "9", "0">>
Phone2 == <<"2", "2", "2", "2", "2", "2", "2", "2", "2", "2">>
PhoneNine == <<"1", "2", "3", "4", "5", "6", "7", "8", "9">>
PhoneEleven == <<"1", "2", "3", "4", "5", "6", "7", "8", "9", "0", "1">>
PhoneLetter == <<"1", "2", "3", "4", "5", "6", "7", "8", "9", "a">>
PhoneInputs == {Phone1, Phone2, PhoneNine, PhoneEleven, PhoneLetter, <<>>}
RecordPhoneInputs == {Phone1, Phone2, PhoneNine, PhoneLetter}
RecordPhoneLists == ListsUpTo(RecordPhoneInputs, 2)

Bday1990 == <<"0", "1", "/", "0", "1", "/", "1", "9", "9", "0">>
BdayShort == <<"1", "/", "1", "/", "1", "9", "9", "0">>
BdayLeap == <<"2", "9", "/", "0", "2", "/", "2", "0", "2", "4">>
BdayNoLeap == <<"2", "9", "/", "0", "2", "/", "2", "0", "2", "3">>
BdayApril31 == <<"3", "1", "/", "0", "4", "/", "2", "0", "2", "0">>
BdayDashes == <<"0", "1", "-", "0", "1", "-", "1", "9", "9", "0">>
BirthdayInputs == {Bday1990, BdayShort, BdayLeap, BdayNoLeap, BdayApril31, BdayDashes, <<>>}
RecordBirthdayInputs == {Bday1990, BdayLeap, BdayNoLeap, <<>>}

strs(xs) == [i \in 1..Len(xs) |-> PyStr(xs[i])]

----------------------------------------------------------------------------
(* Record level: one record under test and the calls made on it.  rec is   *)
(* <<>> while no record exists and <<r>> otherwise; pre is rec as it was   *)
(* before the last call.                                                   *)

IdleBook ==
    /\ storage = NoFile
    /\ book = <<>>
    /\ now = <<2024, 2, 25, 0>>
    /\ pc = "idle"

InitRecord ==
    /\ IdleBook
    /\ rec = <<>>
    /\ op = "init"
    /\ args = <<>>
    /\ err = "none"
    /\ ret = <<>>
    /\ pre = <<>>

\* Record(name, phones, birthday); a constructor that raises leaves no record
NewRecord(name, phones, birthday) ==
    LET res == Record_init(PyStr(name), PyList(strs(phones)), PyStr(birthday))
    IN /\ op' = "Record"
       /\ args' = <<name, phones, birthday>>
       /\ err' = res.err
       /\ rec' = IF res.err = "none" THEN <<res.rec>> ELSE <<>>
       /\ ret' = <<>>
       /\ pre' = <<>>
       /\ UNCHANGED <<storage, book, now, pc>>

AddPhone(phone) ==
    /\ rec # <<>>
    /\ Len(rec[1].phones) < MaxPhones
    /\ LET res == add_phone(rec[1], PyStr(phone))
       IN /\ err' = res.err
          /\ rec' = <<res.rec>>
    /\ op' = "add_phone"
    /\ args' = <<phone>>
    /\ ret' = <<>>
    /\ pre' = rec
    /\ UNCHANGED <<storage, book, now, pc>>

RemovePhone(phone) ==
    /\ rec # <<>>
    /\ rec' = <<remove_phone(rec[1], PyStr(phone))>>
    /\ err' = "none"
    /\ op' = "remove_phone"
    /\ args' = <<phone>>
    /\ ret' = <<>>
    /\ pre' = rec
    /\ UNCHANGED <<storage, book, now, pc>>

EditPhone(old_phone, new_phone) ==
    /\ rec # <<>>
    /\ LET res == edit_phone(rec[1], PyStr(old_phone), PyStr(new_phone))
       IN /\ Len(res.rec.phones) <= MaxPhones
          /\ err' = res.err
          /\ rec' = <<res.rec>>
    /\ op' = "edit_phone"
    /\ args' = <<old_phone, new_phone>>
    /\ ret' = <<>>
    /\ pre' = rec
    /\ UNCHANGED <<storage, book, now, pc>>

FindPhone(phone) ==
    /\ rec # <<>>
    /\ ret' = find_phone(rec[1], PyStr(phone))
    /\ err' = "none"
    /\ op' = "find_phone"
    /\ args' = <<phone>>
    /\ pre' = rec
    /\ UNCHANGED <<storage, book, now, pc, rec>>

AddBirthday(birthday) ==
    /\ rec # <<>>
    /\ LET res == add_birthday(rec[1], PyStr(birthday))
       IN /\ err' = res.err
          /\ rec' = <<res.rec>>
    /\ op' = "add_birthday"
    /\ args' = <<birthday>>
    /\ ret' = <<>>
    /\ pre' = rec
    /\ UNCHANGED <<storage, book, now, pc>>

NextRecord ==
    \/ \E n \in RecordNameInputs, ps \in RecordPhoneLists, b \in RecordBirthdayInputs :
          NewRecord(n, ps, b)
    \/ \E p \in RecordPhoneInputs : AddPhone(p)
    \/ \E p \in RecordPhoneInputs : RemovePhone(p)
    \/ \E p \in RecordPhoneInputs, q \in RecordPhoneInputs : EditPhone(p, q)
    \/ \E p \in RecordPhoneInputs : FindPhone(p)
    \/ \E b \in RecordBirthdayInputs : AddBirthday(b)

SpecRecord == InitRecord /\ [][NextRecord]_vars

----------------------------------------------------------------------------
(* Field level: validate() of a free-standing Name, Phone or Birthday      *)

InitFields == InitRecord

\* Name(s).validate()
ValidateName(s) ==
    /\ op' = "Name.validate"
    /\ args' = <<s>>
    /\ err' = Name_validate(PyStr(s))
    /\ UNCHANGED <<storage, book, now, pc, rec, ret, pre>>

\* Phone(s).validate()
ValidatePhone(s) ==
    /\ op' = "Phone.validate"
    /\ args' = <<s>>
    /\ err' = Phone_validate(PyStr(s))
    /\ UNCHANGED <<storage, book, now, pc, rec, ret, pre>>

\* Birthday(s).validate()
ValidateBirthday(s) ==
    /\ op' = "Birthday.validate"
    /\ args' = <<s>>
    /\ err' = Birthday_validate(PyStr(s))
    /\ UNCHANGED <<storage, book, now, pc, rec, ret, pre>>

NextFields ==
    \/ \E s \in NameInputs : ValidateName(s)
    \/ \E s \in PhoneInputs : ValidatePhone(s)
    \/ \E s \in BirthdayInputs : ValidateBirthday(s)

SpecFields == InitFields /\ [][NextFields]_vars

----------------------------------------------------------------------------
(* Book level: an AddressBook and the calls made on it.  pc is "init"      *)
(* before the constructor ran, "ready" once it returned and "crashed" when *)
(* it raised.                                                              *)

MaxRecords == 2

BookNameInputs == {<<"a">>, <<"A">>, <<"a", "a">>, <<"a", "1">>}
BookPhoneLists == {<<Phone1>>, <<Phone2>>, <<Phone1, PhoneNine>>}
BookBirthdayInputs == {<<>>, Bday1990}

\* an entry of a storage file written by hand, with plain strings as fields
flatEntry(name, phones, birthday) ==
    PyDict(<< <<"name", PyStr(name)>>, <<"phones", PyList(strs(phones))>>,
              <<"birthday", birthday>> >>)

FileList == JsonFile(PyList(<<>>))
FileEmpty == JsonFile(PyDict(<<>>))
FileFlat == JsonFile(PyDict(<< <<(<<"a">>), flatEntry(<<"a">>, <<Phone1>>, PyStr(Bday1990))>> >>))
FileOtherKey == JsonFile(PyDict(<< <<(<<"a">>), flatEntry(<<"A">>, <<Phone2>>, PyNone)>> >>))
FileNoBirthday ==
    JsonFile(PyDict(<< <<(<<"a">>), PyDict(<< <<"name", PyStr(<<"a">>)>>,
                                              <<"phones", PyList(strs(<<Phone1>>))>> >>)>> >>))
FileBadPhone == JsonFile(PyDict(<< <<(<<"a">>), flatEntry(<<"a">>, <<PhoneNine>>, PyNone)>> >>))
FileBadEntry == JsonFile(PyDict(<< <<(<<"a">>), PyStr(<<"a">>)>> >>))

InitialStorages ==
    {NoFile, Garbage, FileList, FileEmpty, FileFlat, FileOtherKey, FileNoBirthday,
     FileBadPhone, FileBadEntry}

InitBookIn(files) ==
    /\ storage \in files
    /\ book = <<>>
    /\ now = <<2024, 2, 25, 0>>
    /\ pc = "init"
    /\ rec = <<>>
    /\ op = "init"
    /\ args = <<>>
    /\ err = "none"
    /\ ret = <<>>
    /\ pre = <<>>

\* book = AddressBook(): __init__ assigns self.data = self.load()
Construct ==
    /\ pc = "init"
    /\ LET res == load(storage)
       IN /\ err' = res.err
          /\ book' = res.data
          /\ pc' = IF res.err = "none" THEN "ready" ELSE "crashed"
    /\ op' = "AddressBook"
    /\ args' = <<>>
    /\ ret' = <<>>
    /\ UNCHANGED <<storage, now, rec, pre>>

\* book.load(): returns the dict, self.data is not assigned
Load ==
    /\ pc = "ready"
    /\ LET res == load(storage)
       IN /\ err' = res.err
          /\ ret' = res.data
    /\ op' = "load"
    /\ args' = <<>>
    /\ UNCHANGED <<storage, book, now, pc, rec, pre>>

\* book.save()
Save ==
    /\ pc = "ready"
    /\ storage' = save(book)
    /\ op' = "save"
    /\ args' = <<>>
    /\ err' = "none"
    /\ ret' = <<>>
    /\ UNCHANGED <<book, now, pc, rec, pre>>

\* book.add_record(Record(name, phones, birthday)); nothing is added when
\* the Record constructor raises
AddRecord(name, phones, birthday) ==
    /\ pc = "ready"
    /\ Len(book) < MaxRecords \/ dictHas(book, name)
    /\ LET res == Record_init(PyStr(name), PyList(strs(phones)), PyStr(birthday))
       IN /\ err' = res.err
          /\ book' = IF res.err = "none" THEN add_record(book, res.rec) ELSE book
    /\ op' = "add_record"
    /\ args' = <<name, phones, birthday>>
    /\ ret' = <<>>
    /\ UNCHANGED <<storage, now, pc, rec, pre>>

\* book.find(name)
Find(name) ==
    /\ pc = "ready"
    /\ ret' = find(book, name)
    /\ op' = "find"
    /\ args' = <<name>>
    /\ err' = "none"
    /\ UNCHANGED <<storage, book, now, pc, rec, pre>>

\* book.delete(name)
Delete(name) ==
    /\ pc = "ready"
    /\ LET res == delete(book, name)
       IN /\ err' = res.err
          /\ book' = res.data
    /\ op' = "delete"
    /\ args' = <<name>>
    /\ ret' = <<>>
    /\ UNCHANGED <<storage, now, pc, rec, pre>>

\* book.get_birthdays_per_week(), with datetime.today() reading t
GetBirthdays(t) ==
    /\ pc = "ready"
    /\ now' = t
    /\ ret' = get_birthdays_per_week(book, t)
    /\ op' = "get_birthdays_per_week"
    /\ args' = <<>>
    /\ err' = "none"
    /\ UNCHANGED <<storage, book, pc, rec, pre>>

InitBook == InitBookIn(InitialStorages)

NextBook ==
    \/ Construct
    \/ \E n \in BookNameInputs, ps \in BookPhoneLists, b \in BookBirthdayInputs :
          AddRecord(n, ps, b)
    \/ \E n \in BookNameInputs : Find(n)
    \/ \E n \in BookNameInputs : Delete(n)

SpecBook == InitBook /\ [][NextBook]_vars

(* Persistence: save and load on the same storage file                     *)

PersistNameInputs == {<<"a">>, <<"A">>, <<"a", "1">>}
PersistPhoneLists == {<<Phone1>>, <<Phone1, Phone2>>, <<PhoneNine>>}
PersistBirthdayInputs == {<<>>, Bday1990, BdayNoLeap}

InitPersist == InitBookIn(InitialStorages)

NextPersist ==
    \/ Construct
    \/ Load
    \/ Save
    \/ \E n \in PersistNameInputs, ps \in PersistPhoneLists, b \in PersistBirthdayInputs :
          AddRecord(n, ps, b)
    \/ \E n \in PersistNameInputs : Delete(n)

SpecPersist == InitPersist /\ [][NextPersist]_vars

(* Birthdays of the coming week                                            *)

Bday24Feb == <<"2", "4", "/", "0", "2", "/", "2", "0", "2", "4">>
Bday25Feb == <<"2", "5", "/", "0", "2", "/", "2", "0", "2", "4">>
Bday25Feb23 == <<"2", "5", "/", "0", "2", "/", "2", "0", "2", "3">>
Bday3Mar == <<"0", "3", "/", "0", "3", "/", "2", "0", "2", "4">>
Bday4Mar == <<"0", "4", "/", "0", "3", "/", "2", "0", "2", "4">>
BdayNewYear == <<"0", "1", "/", "0", "1", "/", "2", "0", "2", "5">>

WeekNameInputs == {<<"a">>, <<"A">>}
WeekPhoneLists == {<<Phone1>>}
WeekBirthdayInputs ==
    {<<>>, Bday24Feb, Bday25Feb, Bday25Feb23, Bday3Mar, Bday4Mar, BdayNewYear}

\* clock readings: midnight, noon and the last second of a few days
ClockDays == {<<2024, 2, 24>>, <<2024, 2, 25>>, <<2024, 2, 26>>, <<2023, 2, 25>>,
              <<2024, 12, 25>>}
ClockTimes == {0, 43200, 86399}
ClockInputs == {d \o <<t>> : d \in ClockDays, t \in ClockTimes}

InitWeek == InitBookIn({NoFile})

NextWeek ==
    \/ Construct
    \/ \E n \in WeekNameInputs, ps \in WeekPhoneLists, b \in WeekBirthdayInputs :
          AddRecord(n, ps, b)
    \/ \E t \in ClockInputs : GetBirthdays(t)

SpecWeek == InitWeek /\ [][NextWeek]_vars

----------------------------------------------------------------------------
(* The menu loop of main().  Construct is the first statement of main;     *)
(* pc = "ready" is the menu prompt, "exited" the state after the exit      *)
(* command.                                                                *)

\* str.strip(): leading and trailing spaces removed
RECURSIVE lstrip(_)
lstrip(s) == IF Len(s) > 0 /\ s[1] = " " THEN lstrip(Tail(s)) ELSE s

RECURSIVE rstrip(_)
rstrip(s) ==
    IF Len(s) > 0 /\ s[Len(s)] = " " THEN rstrip(SubSeq(s, 1, Len(s) - 1)) ELSE s

strip(s) == rstrip(lstrip(s))

\* position of the first "," in s at or after position i, 0 when none
RECURSIVE commaFrom(_, _)
commaFrom(s, i) ==
    IF i > Len(s) THEN 0
    ELSE IF s[i] = "," THEN i ELSE commaFrom(s, i + 1)

\* str.split(","): always at least one piece, "" splits into [""]
RECURSIVE split(_)
split(s) ==
    LET i == commaFrom(s, 1)
    IN IF i = 0 THEN <<s>>
       ELSE <<SubSeq(s, 1, i - 1)>> \o split(SubSeq(s, i + 1, Len(s)))

ShellNameInputs == {<<"A">>, <<"a">>, <<" ">>}
ShellPhoneLines ==
    {Phone1, Phone1 \o <<",">> \o Phone2, Phone1 \o <<",", " ">> \o Phone2, <<>>}
ShellBirthdayInputs == {<<>>, Bday1990, BdayNoLeap}
ShellOldPhones == {Phone1}
ShellNewPhones == {Phone2, <<" ">> \o Phone2, PhoneNine}
ShellStorages == {NoFile, Garbage, FileList, FileFlat, FileOtherKey}
ShellClockInputs == {<<2024, 2, 25, 0>>}

\* an add command whose record is inserted before its phones and birthday
\* are validated
CmdAdd_InsertFirst(name, line, birthday) ==
    /\ pc = "ready"
    /\ Len(book) < MaxRecords \/ dictHas(book, strip(name))
    /\ LET n == strip(name)
           res == Record_init(PyStr(n), PyList(strs(split(strip(line)))),
                              PyStr(strip(birthday)))
           bare == [name |-> n, phones |-> <<>>, birthday |-> <<>>]
       IN /\ err' = res.err
          /\ book' = IF res.err = "none" THEN add_record(book, res.rec)
                     ELSE IF Name_validate(PyStr(n)) = "none" THEN add_record(book, bare)
                     ELSE book
          /\ storage' = IF res.err = "none" THEN save(book') ELSE storage
    /\ op' = "add"
    /\ args' = <<name, line, birthday>>
    /\ ret' = <<>>
    /\ UNCHANGED <<now, pc, rec, pre>>

\* command "add": Record(name, phones, birthday), add_record, save; a
\* ValueError is printed and nothing else is done
CmdAdd(name, line, birthday) ==
    /\ pc = "ready"
    /\ Len(book) < MaxRecords \/ dictHas(book, strip(name))
    /\ LET res == Record_init(PyStr(strip(name)), PyList(strs(split(strip(line)))),
                              PyStr(strip(birthday)))
       IN /\ err' = res.err
          /\ book' = IF res.err = "none" THEN add_record(book, res.rec) ELSE book
          /\ storage' = IF res.err = "none" THEN save(book') ELSE storage
    /\ op' = "add"
    /\ args' = <<name, line, birthday>>
    /\ ret' = <<>>
    /\ UNCHANGED <<now, pc, rec, pre>>

\* command "change": find, then edit_phone on the record found and save; a
\* ValueError from edit_phone is printed and save is skipped
CmdChange(name, old_phone, new_phone) ==
    /\ pc = "ready"
    /\ LET record == find(book, strip(name))
       IN IF record = <<>>
          THEN /\ err' = "none"
               /\ ret' = <<>>
               /\ UNCHANGED <<book, storage>>
          ELSE LET res == edit_phone(record[1], PyStr(strip(old_phone)),
                                     PyStr(strip(new_phone)))
               IN /\ Len(res.rec.phones) <= MaxPhones
                  /\ err' = res.err
                  /\ ret' = record
                  /\ book' = dictSet(book, title(strip(name)), res.rec)
                  /\ storage' = IF res.err = "none" THEN save(book') ELSE storage
    /\ op' = "change"
    /\ args' = <<name, old_phone, new_phone>>
    /\ UNCHANGED <<now, pc, rec, pre>>

\* command "find"
CmdFind(name) ==
    /\ pc = "ready"
    /\ ret' = find(book, strip(name))
    /\ op' = "find"
    /\ args' = <<name>>
    /\ err' = "none"
    /\ UNCHANGED <<storage, book, now, pc, rec, pre>>

\* command "all": show_all prints every record
CmdAll ==
    /\ pc = "ready"
    /\ ret' = [i \in 1..Len(book) |-> book[i][2]]
    /\ op' = "all"
    /\ args' = <<>>
    /\ err' = "none"
    /\ UNCHANGED <<storage, book, now, pc, rec, pre>>

\* command "birthdays", with datetime.today() reading t
CmdBirthdays(t) ==
    /\ pc = "ready"
    /\ now' = t
    /\ ret' = get_birthdays_per_week(book, t)
    /\ op' = "birthdays"
    /\ args' = <<>>
    /\ err' = "none"
    /\ UNCHANGED <<storage, book, pc, rec, pre>>

\* a menu choice that is not a number from the list: message and continue
CmdInvalid ==
    /\ pc = "ready"
    /\ op' = "invalid"
    /\ args' = <<>>
    /\ err' = "none"
    /\ ret' = <<>>
    /\ UNCHANGED <<storage, book, now, pc, rec, pre>>

\* command "exit": break
CmdExit ==
    /\ pc = "ready"
    /\ pc' = "exited"
    /\ op' = "exit"
    /\ args' = <<>>
    /\ err' = "none"
    /\ ret' = <<>>
    /\ UNCHANGED <<storage, book, now, rec, pre>>

\* the program is started again on the storage the last run left
Rerun ==
    /\ pc \in {"exited", "crashed"}
    /\ pc' = "init"
    /\ book' = <<>>
    /\ op' = "init"
    /\ args' = <<>>
    /\ err' = "none"
    /\ ret' = <<>>
    /\ UNCHANGED <<storage, now, rec, pre>>

InitShell == InitBookIn(ShellStorages)

NextShell ==
    \/ Construct
    \/ \E n \in ShellNameInputs, l \in ShellPhoneLines, b \in ShellBirthdayInputs :
          CmdAdd(n, l, b)
    \/ \E n \in ShellNameInputs, p \in ShellOldPhones, q \in ShellNewPhones :
          CmdChange(n, p, q)
    \/ \E n \in ShellNameInputs : CmdFind(n)
    \/ CmdAll
    \/ \E t \in ShellClockInputs : CmdBirthdays(t)
    \/ CmdInvalid
    \/ CmdExit
    \/ Rerun

SpecShell == InitShell /\ [][NextShell]_vars

----------------------------------------------------------------------------
(* Properties of the field and record levels                               *)

DigitSpacePunct == Digits \cup {" ", "-", "/", ",", "."}
AllLetters(s) == \A i \in 1..Len(s) : s[i] \in Alpha
TenDigits(s) == Len(s) = 10 /\ \A i \in 1..10 : s[i] \in Digits

\* xs without its first element equal to x; xs itself when x is not in xs
WithoutFirst(xs, x) ==
    IF \A i \in 1..Len(xs) : xs[i] # x THEN xs
    ELSE LET i == CHOOSE k \in 1..Len(xs) :
                      xs[k] = x /\ \A j \in 1..(k - 1) : xs[j] # x
         IN [j \in 1..(Len(xs) - 1) |-> IF j < i THEN xs[j] ELSE xs[j + 1]]

\* C8 as stated: Name validation succeeds for every string of letters, the
\* empty string included, and fails for every string with a digit, a space
\* or a punctuation character.
C8_NameValidateAsStated ==
    op = "Name.validate" =>
        /\ AllLetters(args[1]) => err = "none"
        /\ (\E i \in 1..Len(args[1]) : args[1][i] \in DigitSpacePunct) => err = "ValueError"

\* C8 amended: Name validation succeeds for every non-empty string of
\* letters, and fails for the empty string and for every string with a
\* digit, a space or a punctuation character.
C8_NameValidate ==
    op = "Name.validate" =>
        /\ (Len(args[1]) > 0 /\ AllLetters(args[1])) => err = "none"
        /\ Len(args[1]) = 0 => err = "ValueError"
        /\ (\E i \in 1..Len(args[1]) : args[1][i] \in DigitSpacePunct) => err = "ValueError"

C8_Witness == op = "Name.validate" /\ args[1] = <<>> /\ err = "ValueError"

\* C4: edit_phone(old, new) removes the first phone equal to old (nothing
\* when absent) and then appends new only if new is valid; an invalid new
\* raises ValueError and leaves the record with old removed and new not added.
C4_EditPhone ==
    op = "edit_phone" =>
        LET old == args[1]
            new == args[2]
            before == pre[1].phones
            after == rec[1].phones
        IN /\ TenDigits(new) =>
                 err = "none" /\ after = Append(WithoutFirst(before, old), new)
           /\ ~TenDigits(new) =>
                 err = "ValueError" /\ after = WithoutFirst(before, old)
           /\ (before = <<old>> /\ TenDigits(new)) => after = <<new>>
           /\ (before = <<old>> /\ ~TenDigits(new)) => after = <<>>
           /\ rec[1].name = pre[1].name
           /\ rec[1].birthday = pre[1].birthday

C4_Witness ==
    /\ op = "edit_phone"
    /\ err = "ValueError"
    /\ pre[1].phones = <<args[1]>>
    /\ rec[1].phones = <<>>

\* C9: every record that exists, after a constructor that returned and any
\* add_phone, remove_phone, edit_phone and add_birthday calls, has a valid
\* name, only valid 10-digit phones and a birthday that is absent or a valid
\* date.
C9_RecordValid ==
    rec # <<>> =>
        /\ Len(rec[1].name) > 0 /\ AllLetters(rec[1].name)
        /\ \A i \in 1..Len(rec[1].phones) : TenDigits(rec[1].phones[i])
        /\ rec[1].birthday # <<>> => strptime(rec[1].birthday[1]).ok

C9_Witness ==
    /\ op = "edit_phone"
    /\ err = "ValueError"
    /\ Len(rec[1].phones) = 1
    /\ rec[1].birthday # <<>>

----------------------------------------------------------------------------
(* Properties of the book level                                            *)

\* two books with the same keys and, under each key, the same name, the
\* same phones in the same order and the same birthday
SameBook(a, b) ==
    /\ dictKeys(a) = dictKeys(b)
    /\ \A k \in dictKeys(a) : dictGet(a, k) = dictGet(b, k)

\* C1: save() followed by load() on the same storage succeeds and returns a
\* book with the same keys and, per key, the same name, phones and birthday.
C1_SaveLoadRoundTrip ==
    [][(op = "save" /\ op' = "load") => (err' = "none" /\ SameBook(ret', book))]_vars

NameOk(x) == x.t = "str" /\ Len(x.v) > 0 /\ AllLetters(x.v)
PhonesOk(x) ==
    \/ x.t = "none"
    \/ x.t = "list" /\ \A i \in 1..Len(x.v) : x.v[i].t = "str" /\ TenDigits(x.v[i].v)
BirthdayOk(x) ==
    \/ x.t = "none"
    \/ x.t = "str" /\ (x.v = <<>> \/ strptime(x.v).ok)

\* an entry of the stored document that carries a name, a phone or a
\* birthday which does not pass validation
CarriesInvalidField(v) ==
    /\ v.t = "dict"
    /\ \/ dictHas(v.v, "name") /\ ~NameOk(dictGet(v.v, "name"))
       \/ dictHas(v.v, "phones") /\ ~PhonesOk(dictGet(v.v, "phones"))
       \/ dictHas(v.v, "birthday") /\ ~BirthdayOk(dictGet(v.v, "birthday"))

\* C7: load() returns an empty book when the file is absent or not
\* well-formed, and fails only when the file is well-formed and an entry
\* carries a name, phone or birthday that does not pass validation.
C7_LoadFailsOnlyOnInvalidField ==
    op \in {"load", "AddressBook"} =>
        /\ storage.kind \in {"absent", "garbage"} =>
              err = "none" /\ (IF op = "load" THEN ret ELSE book) = <<>>
        /\ err # "none" =>
              /\ storage.kind = "json"
              /\ storage.doc.t = "dict"
              /\ \E i \in 1..Len(storage.doc.v) : CarriesInvalidField(storage.doc.v[i][2])

SameIgnoringCase(a, b) ==
    Len(a) = Len(b) /\ \A i \in 1..Len(a) : toLower(a[i]) = toLower(b[i])

\* C2: after add_record(Record(n, [p])), find(m) for any m that differs from
\* n only in letter case returns a record whose phone list contains p.
C2_AddThenFind ==
    [][(/\ op = "add_record" /\ err = "none" /\ Len(args[2]) = 1
        /\ op' = "find" /\ SameIgnoringCase(args'[1], args[1]))
       => (/\ ret' # <<>>
           /\ \E i \in 1..Len(ret'[1].phones) : ret'[1].phones[i] = args[2][1])]_vars

\* C5: delete(name) of a name that is not a key raises KeyError and leaves
\* the book unchanged; delete(name) of a key removes that entry, and a
\* find(name) right after it returns None.
C5_DeleteThenFind ==
    [][/\ (op' = "delete" /\ ~dictHas(book, args'[1])) =>
              (err' = "KeyError" /\ book' = book)
       /\ (op' = "delete" /\ dictHas(book, args'[1])) =>
              (/\ err' = "none"
               /\ dictKeys(book') = dictKeys(book) \ {args'[1]}
               /\ \A k \in dictKeys(book') : dictGet(book', k) = dictGet(book, k))
       /\ (op = "delete" /\ err = "none" /\ op' = "find" /\ args'[1] = args[1]) =>
              ret' = <<>>]_vars

\* days from 01/01/0001 to date
dayNumber(date) ==
    LET y == date[1] - 1
        before == <<0, 31, 59, 90, 120, 151, 181, 212, 243, 273, 304, 334>>
        leapDay == IF date[2] > 2 /\ isLeap(date[1]) THEN 1 ELSE 0
    IN 365 * y + (y \div 4) - (y \div 100) + (y \div 400)
       + before[date[2]] + leapDay + date[3]

\* C3: get_birthdays_per_week returns (name, birthday) of a record iff the
\* record has a birthday and its stored date d, year as stored, satisfies
\* today <= d <= today + 7 days as calendar dates, whatever the time of day.
C3_BirthdaysWindow ==
    op = "get_birthdays_per_week" =>
        \A i \in 1..Len(book) :
            LET r == book[i][2]
                listed == /\ r.birthday # <<>>
                          /\ \E j \in 1..Len(ret) : ret[j] = <<r.name, r.birthday[1]>>
                inWindow == /\ r.birthday # <<>>
                            /\ dayNumber(strptime(r.birthday[1]).date)
                                 - dayNumber(<<now[1], now[2], now[3]>>) \in 0..7
            IN listed <=> inWindow

----------------------------------------------------------------------------
(* Properties of the menu loop                                             *)

\* a stored field, read either as a plain value or as the {"value": ...}
\* object save writes for a Field
plain(x) == IF x.t = "dict" /\ Len(x.v) = 1 /\ x.v[1][1] = "value" THEN x.v[1][2] ELSE x

\* the stored entry v holds the name, the phones and the birthday of r
EntryHolds(v, r) ==
    /\ v.t = "dict"
    /\ dictHas(v.v, "name") /\ dictHas(v.v, "phones") /\ dictHas(v.v, "birthday")
    /\ LET n == plain(dictGet(v.v, "name"))
           ps == dictGet(v.v, "phones")
           b == plain(dictGet(v.v, "birthday"))
       IN /\ n.t = "str" /\ n.v = r.name
          /\ IF ps.t = "none" THEN r.phones = <<>>
             ELSE /\ ps.t = "list"
                  /\ Len(ps.v) = Len(r.phones)
                  /\ \A i \in 1..Len(ps.v) :
                        plain(ps.v[i]).t = "str" /\ plain(ps.v[i]).v = r.phones[i]
          /\ IF r.birthday = <<>> THEN ~truthy(b)
             ELSE b.t = "str" /\ b.v = r.birthday[1]

\* the storage file holds exactly the records of the book data
Holds(file, data) ==
    IF file.kind # "json" THEN data = <<>>
    ELSE /\ file.doc.t = "dict"
         /\ dictKeys(file.doc.v) = dictKeys(data)
         /\ \A k \in dictKeys(data) : EntryHolds(dictGet(file.doc.v, k), dictGet(data, k))

\* C6: after every completed menu command, and so at normal exit, the
\* storage holds the in-memory book: no change to a record is unsaved.
C6_StorageHoldsBook ==
    (pc \in {"ready", "exited"}
     /\ op \in {"add", "change", "find", "all", "birthdays", "exit"})
        => Holds(storage, book)

\* every field entered for the add command passes the validation that
\* Record(...) runs on it; an empty birthday is not validated
AddInputsValid(name, line, birthday) ==
    /\ NameOk(PyStr(strip(name)))
    /\ \A i \in 1..Len(split(strip(line))) : TenDigits(split(strip(line))[i])
    /\ strip(birthday) # <<>> => strptime(strip(birthday)).ok

\* C10: the add command is all-or-nothing: when the name, a phone or the
\* birthday fails validation neither the book nor the storage changes; when
\* every field validates the record is inserted under its name, replacing
\* any record with that name, and saved.
C10_AddAllOrNothing ==
    [][op' = "add" =>
         LET n == strip(args'[1])
             b == strip(args'[3])
             record == [name |-> n, phones |-> split(strip(args'[2])),
                        birthday |-> IF b = <<>> THEN <<>> ELSE <<b>>]
         IN IF AddInputsValid(args'[1], args'[2], args'[3])
            THEN /\ err' = "none"
                 /\ dictKeys(book') = dictKeys(book) \cup {n}
                 /\ dictGet(book', n) = record
                 /\ \A k \in dictKeys(book) \ {n} : dictGet(book', k) = dictGet(book, k)
                 /\ Holds(storage', book')
            ELSE /\ err' = "ValueError"
                 /\ book' = book
                 /\ storage' = storage]_vars

C10_Witness ==
    /\ op = "add"
    /\ err = "ValueError"
    /\ pc = "ready"
    /\ dictHas(book, strip(args[1]))
    /\ Len(split(strip(args[2]))) = 2

====
